---- MODULE Spec2Model ----
(***************************************************************************)
(* Task Manager API: the tasks table (app/models.py), the data-access      *)
(* layer (app/crud.py), the request/response schemas (app/schemas.py) and  *)
(* the FastAPI router (app/main.py).                                       *)
(*                                                                         *)
(* Two specifications share the state:                                     *)
(*   Spec      a client talks to the router (HTTP requests only);          *)
(*   SpecCrud  a caller uses the data-access functions directly on rows    *)
(*             it holds a reference to, as the unit tests do.              *)
(* A request (or call) is served atomically: one unit of work, one         *)
(* transaction.  Request bodies are well-typed JSON; only the constraints  *)
(* the schemas declare are in question.                                    *)
(***************************************************************************)
EXTENDS Integers, Sequences, FiniteSets, TLC

VARIABLES tasks, now, softDeleted, revived, phase, req, resp, call, ret

vars == <<tasks, now, softDeleted, revived, phase, req, resp, call, ret>>

(* ------------------------------ bounds --------------------------------- *)

\* the wall clock runs over the instants 0..MaxTime; a transaction that
\* writes takes one instant, so a behaviour holds at most MaxTime writes
MaxTime == 3

(* --------------------------- optional values --------------------------- *)

\* Python's None, and a present value
None == <<>>
Some(v) == <<v>>

Min(a, b) == IF a < b THEN a ELSE b

(* ------------------------------ schemas -------------------------------- *)

TitleMinLength == 3
TitleMaxLength == 255
PriorityMin == 1
PriorityMax == 5
DefaultPriority == 3
DefaultLimit == 50

\* Field(pattern="^(pending|in_progress|done)$")
StatusPattern(s) == s \in {"pending", "in_progress", "done"}

\* TaskBase: the constraints of the creation payload and of the response model
TaskBaseOk(title, status, priority) ==
    /\ Len(title) >= TitleMinLength
    /\ Len(title) <= TitleMaxLength
    /\ StatusPattern(status)
    /\ priority >= PriorityMin
    /\ priority <= PriorityMax

\* the value of a field of a JSON body, with the schema default when unset
FieldOr(body, f, default) == IF f \in DOMAIN body THEN body[f] ELSE default

\* TaskCreate(**body): None when validation fails, else Some(model_dump())
TaskCreate(body) ==
    LET title == FieldOr(body, "title", None)
        status == FieldOr(body, "status", Some("pending"))
        priority == FieldOr(body, "priority", Some(DefaultPriority))
    IN IF /\ title # None /\ status # None /\ priority # None
          /\ TaskBaseOk(title[1], status[1], priority[1])
       THEN Some([title |-> title[1],
                  description |-> FieldOr(body, "description", None),
                  status |-> status[1],
                  priority |-> priority[1],
                  due_date |-> FieldOr(body, "due_date", None)])
       ELSE None

\* TaskUpdate(**body): every field Optional and unconstrained;
\* model_dump(exclude_unset=True) is the body itself
TaskUpdate(body) == Some(body)

\* TaskOut (response_model): a row that breaks TaskBase cannot be serialized
TaskOut(row) == TaskBaseOk(row.title, row.status, row.priority)

(* ------------------------------- models -------------------------------- *)

\* columns declared nullable=False
NotNullColumns == {"title", "status", "priority", "is_active"}

\* INSERT of Task(**data): id from the primary key sequence, the column
\* defaults for is_active, created_at and updated_at
NewRow(store, data, t) ==
    [id |-> Len(store) + 1,
     title |-> data.title,
     description |-> data.description,
     status |-> data.status,
     priority |-> data.priority,
     is_active |-> TRUE,
     due_date |-> data.due_date,
     created_at |-> t,
     updated_at |-> t]

\* setattr(db_task, field, value): a nullable column holds the optional value
SetAttr(row, f, v) ==
    IF f \in NotNullColumns THEN [row EXCEPT ![f] = v[1]] ELSE [row EXCEPT ![f] = v]

RECURSIVE SetAll(_, _, _)
SetAll(row, data, fields) ==
    IF fields = {} THEN row
    ELSE LET f == CHOOSE x \in fields : TRUE
         IN SetAll(SetAttr(row, f, data[f]), data, fields \ {f})

\* the columns the flush writes: every attribute set on an expired instance,
\* and on a loaded one those whose value differs from the loaded value
Dirty(old, new, fields, loaded) ==
    {f \in fields : ~loaded \/ new[f] # old[f]}

\* Session.commit() of one modified row: the UPDATE carries the dirty columns
\* and, when there are any, updated_at = utcnow() (onupdate)
Flush(old, new, fields, loaded, t) ==
    IF Dirty(old, new, fields, loaded) = {} THEN old
    ELSE [new EXCEPT !.updated_at = t]

IndexOf(store, task_id) ==
    CHOOSE i \in 1..Len(store) : store[i].id = task_id

Ids(store) == {store[i].id : i \in 1..Len(store)}

(* -------------------------------- crud --------------------------------- *)

IsActive(row) == row.is_active = TRUE

\* get_task without the is_active filter
get_task_any(store, task_id) ==
    LET hits == SelectSeq(store, LAMBDA r : r.id = task_id)
    IN IF hits = <<>> THEN None ELSE Some(Head(hits))

\* .filter(id == task_id, is_active == True).first()
get_task(store, task_id) ==
    LET hits == SelectSeq(store, LAMBDA r : r.id = task_id /\ IsActive(r))
    IN IF hits = <<>> THEN None ELSE Some(Head(hits))

\* .filter(is_active == True).offset(skip).limit(limit).all()
get_tasks(store, skip, limit) ==
    LET act == SelectSeq(store, IsActive)
    IN SubSeq(act, skip + 1, Min(Len(act), skip + limit))

\* get_tasks_by_status without the is_active filter
get_tasks_by_status_any(store, status) ==
    SelectSeq(store, LAMBDA r : r.status = status)

\* .filter(status == status, is_active == True).all()
get_tasks_by_status(store, status) ==
    SelectSeq(store, LAMBDA r : r.status = status /\ IsActive(r))

\* SQL comparison with NULL is never true
SqlLess(a, b) == a # None /\ a[1] < b

\* get_overdue_tasks with due_date <= utcnow()
get_overdue_tasks_inclusive(store, t) ==
    SelectSeq(store, LAMBDA r : /\ r.due_date # None
                                /\ (SqlLess(r.due_date, t) \/ r.due_date = Some(t))
                                /\ IsActive(r)
                                /\ r.status # "done")

\* .filter(due_date != None, due_date < utcnow(), is_active == True, status != "done")
get_overdue_tasks(store, t) ==
    SelectSeq(store, LAMBDA r : /\ r.due_date # None
                                /\ SqlLess(r.due_date, t)
                                /\ IsActive(r)
                                /\ r.status # "done")

\* add, commit, refresh
create_task(store, data, t) ==
    LET row == NewRow(store, data, t)
    IN [ok |-> TRUE, tasks |-> Append(store, row), rows |-> <<row>>]

\* update_task over model_dump() without exclude_unset: the nullable fields
\* the patch leaves out are written as None
update_task_unset_as_none(store, task_id, data, loaded, t) ==
    LET i == IndexOf(store, task_id)
        old == store[i]
        fields == DOMAIN data \cup {"description", "due_date"}
        full == [f \in fields |-> FieldOr(data, f, None)]
    IN IF \E f \in DOMAIN data : f \in NotNullColumns /\ data[f] = None
       THEN [ok |-> FALSE, tasks |-> store, rows |-> <<>>]
       ELSE LET row == Flush(old, SetAll(old, full, fields), fields, loaded, t)
            IN [ok |-> TRUE, tasks |-> [store EXCEPT ![i] = row], rows |-> <<row>>]

\* setattr for every field of the patch, commit, refresh; a NULL in a
\* NOT NULL column makes the commit raise and the transaction roll back
update_task(store, task_id, data, loaded, t) ==
    LET i == IndexOf(store, task_id)
        old == store[i]
    IN IF \E f \in DOMAIN data : f \in NotNullColumns /\ data[f] = None
       THEN [ok |-> FALSE, tasks |-> store, rows |-> <<>>]
       ELSE LET row == Flush(old, SetAll(old, data, DOMAIN data), DOMAIN data, loaded, t)
            IN [ok |-> TRUE, tasks |-> [store EXCEPT ![i] = row], rows |-> <<row>>]

\* soft_delete_task as an UPDATE without its WHERE clause: every row is
\* cleared
soft_delete_task_all(store, task_id, loaded, t) ==
    [ok |-> TRUE,
     tasks |-> [i \in 1..Len(store) |->
                   Flush(store[i], [store[i] EXCEPT !.is_active = FALSE],
                         {"is_active"}, loaded, t)],
     rows |-> <<>>]

\* db_task.is_active = False; commit
soft_delete_task(store, task_id, loaded, t) ==
    LET i == IndexOf(store, task_id)
        old == store[i]
        row == Flush(old, [old EXCEPT !.is_active = FALSE], {"is_active"}, loaded, t)
    IN [ok |-> TRUE, tasks |-> [store EXCEPT ![i] = row], rows |-> <<>>]

\* complete_task as a guarded transition: only a task in progress is done
complete_task_guarded(store, task_id, loaded, t) ==
    LET i == IndexOf(store, task_id)
        old == store[i]
        row == IF old.status = "in_progress"
               THEN Flush(old, [old EXCEPT !.status = "done"], {"status"}, loaded, t)
               ELSE old
    IN [ok |-> TRUE, tasks |-> [store EXCEPT ![i] = row], rows |-> <<row>>]

\* db_task.status = "done"; commit; refresh
complete_task(store, task_id, loaded, t) ==
    LET i == IndexOf(store, task_id)
        old == store[i]
        row == Flush(old, [old EXCEPT !.status = "done"], {"status"}, loaded, t)
    IN [ok |-> TRUE, tasks |-> [store EXCEPT ![i] = row], rows |-> <<row>>]

(* ------------------------------- router -------------------------------- *)

Lit(s) == [kind |-> "lit", name |-> s]
Param(s) == [kind |-> "param", name |-> s]
Route(method, path, name) == [method |-> method, path |-> path, name |-> name]

\* the routes of app, in the order the decorators register them
Routes ==
    << Route("GET", <<Lit("health")>>, "health_check"),
       Route("GET", <<Lit("tasks")>>, "list_tasks"),
       Route("GET", <<Lit("tasks"), Param("task_id")>>, "get_task"),
       Route("POST", <<Lit("tasks")>>, "create_task"),
       Route("PUT", <<Lit("tasks"), Param("task_id")>>, "update_task"),
       Route("DELETE", <<Lit("tasks"), Param("task_id")>>, "delete_task"),
       Route("PATCH", <<Lit("tasks"), Param("task_id"), Lit("complete")>>, "complete_task"),
       Route("GET", <<Lit("tasks"), Lit("status"), Param("status")>>, "tasks_by_status"),
       Route("GET", <<Lit("tasks"), Lit("overdue")>>, "overdue_tasks") >>

\* a path parameter matches any one segment
MatchPath(pattern, path) ==
    /\ Len(pattern) = Len(path)
    /\ \A i \in 1..Len(pattern) : pattern[i].kind = "param" \/ pattern[i].name = path[i]

SetMin(S) == CHOOSE x \in S : \A y \in S : x <= y

\* the first route that matches path and method serves the request; a path
\* that only routes of another method match is 405, no match is 404
Dispatch(r) ==
    LET paths == {i \in 1..Len(Routes) : MatchPath(Routes[i].path, r.path)}
        full == {i \in paths : Routes[i].method = r.method}
    IN IF full # {} THEN Routes[SetMin(full)].name
       ELSE IF paths # {} THEN "405" ELSE "404"

\* the decimal texts of the ids in use, with the int each one denotes
Decimal ==
    [seg \in {ToString(n) : n \in 0..(MaxTime + 1)} |->
        CHOOSE n \in 0..(MaxTime + 1) : ToString(n) = seg]

\* the text of a path segment as an int, None when it is not a number
ParseInt(seg) == IF seg \in DOMAIN Decimal THEN Some(Decimal[seg]) ELSE None

Response(code, body) == [code |-> code, body |-> body]

Out(response, store, wrote) == [resp |-> response, tasks |-> store, wrote |-> wrote]

\* the handler's return value through response_model: rows that break
\* TaskOut raise ResponseValidationError, a 500
Serialize(code, rows) ==
    IF \A i \in 1..Len(rows) : TaskOut(rows[i])
    THEN Response(code, rows)
    ELSE Response(500, <<>>)

main_health_check(store) == Out(Response(200, <<[status |-> "ok"]>>), store, FALSE)

main_list_tasks(store, query) ==
    Out(Serialize(200, get_tasks(store, FieldOr(query, "skip", 0),
                                 FieldOr(query, "limit", DefaultLimit))),
        store, FALSE)

main_get_task(store, seg) ==
    LET task_id == ParseInt(seg)
    IN IF task_id = None THEN Out(Response(422, <<>>), store, FALSE)
       ELSE LET task == get_task(store, task_id[1])
            IN IF task = None THEN Out(Response(404, <<>>), store, FALSE)
               ELSE Out(Serialize(200, task), store, FALSE)

main_create_task(store, body, t) ==
    LET task_in == TaskCreate(body)
    IN IF task_in = None THEN Out(Response(422, <<>>), store, FALSE)
       ELSE LET done == create_task(store, task_in[1], t)
            IN Out(Serialize(201, done.rows), done.tasks, TRUE)

main_update_task(store, seg, body, t) ==
    LET task_id == ParseInt(seg)
        task_in == TaskUpdate(body)
    IN IF task_id = None \/ task_in = None THEN Out(Response(422, <<>>), store, FALSE)
       ELSE IF get_task(store, task_id[1]) = None
            THEN Out(Response(404, <<>>), store, FALSE)
            ELSE LET done == update_task(store, task_id[1], task_in[1], TRUE, t)
                 IN IF done.ok THEN Out(Serialize(200, done.rows), done.tasks, TRUE)
                    ELSE Out(Response(500, <<>>), done.tasks, FALSE)

main_delete_task(store, seg, t) ==
    LET task_id == ParseInt(seg)
    IN IF task_id = None THEN Out(Response(422, <<>>), store, FALSE)
       ELSE IF get_task(store, task_id[1]) = None
            THEN Out(Response(404, <<>>), store, FALSE)
            ELSE Out(Response(204, <<>>),
                     soft_delete_task(store, task_id[1], TRUE, t).tasks, TRUE)

main_complete_task(store, seg, t) ==
    LET task_id == ParseInt(seg)
    IN IF task_id = None THEN Out(Response(422, <<>>), store, FALSE)
       ELSE IF get_task(store, task_id[1]) = None
            THEN Out(Response(404, <<>>), store, FALSE)
            ELSE LET done == complete_task(store, task_id[1], TRUE, t)
                 IN Out(Serialize(200, done.rows), done.tasks, TRUE)

\* the parameter named status hides fastapi's status module: for a value
\* outside the list, status.HTTP_400_BAD_REQUEST is an attribute lookup on a
\* str, which raises AttributeError, a 500
main_tasks_by_status(store, status) ==
    IF status \notin {"pending", "in_progress", "done"}
    THEN Out(Response(500, <<>>), store, FALSE)
    ELSE Out(Serialize(200, get_tasks_by_status(store, status)), store, FALSE)

main_overdue_tasks(store, t) == Out(Serialize(200, get_overdue_tasks(store, t)), store, FALSE)

(* ------------------------------- inputs -------------------------------- *)

T255 == "xxxxxxxxxxxxxxxxxxxxxxxxxxxxxxxxxxxxxxxxxxxxxxxxxxxxxxxxxxxxxxxxxxxxxxxxxxxxxxxxxxxxxxxxxxxxxxxxxxxxxxxxxxxxxxxxxxxxxxxxxxxxxxxxxxxxxxxxxxxxxxxxxxxxxxxxxxxxxxxxxxxxxxxxxxxxxxxxxxxxxxxxxxxxxxxxxxxxxxxxxxxxxxxxxxxxxxxxxxxxxxxxxxxxxxxxxxxxxxxxxxxxxxxxxxxxxxx"
T256 == "xxxxxxxxxxxxxxxxxxxxxxxxxxxxxxxxxxxxxxxxxxxxxxxxxxxxxxxxxxxxxxxxxxxxxxxxxxxxxxxxxxxxxxxxxxxxxxxxxxxxxxxxxxxxxxxxxxxxxxxxxxxxxxxxxxxxxxxxxxxxxxxxxxxxxxxxxxxxxxxxxxxxxxxxxxxxxxxxxxxxxxxxxxxxxxxxxxxxxxxxxxxxxxxxxxxxxxxxxxxxxxxxxxxxxxxxxxxxxxxxxxxxxxxxxxxxxxxx"

\* creation payloads (JSON objects: the fields present, null as None)
CreateBodies ==
    { ("title" :> Some("Overdue API")) @@ ("description" :> Some("vencida"))
          @@ ("status" :> Some("in_progress")) @@ ("priority" :> Some(PriorityMin))
          @@ ("due_date" :> Some(1)),
      ("title" :> Some("Futura API")) @@ ("due_date" :> Some(MaxTime)),
      ("title" :> Some(T255)) @@ ("status" :> Some("done"))
          @@ ("priority" :> Some(PriorityMax)) @@ ("due_date" :> Some(0)),
      "title" :> Some("ab"),
      "title" :> Some(T256),
      "title" :> None,
      "description" :> Some("sin titulo"),
      ("title" :> Some("abc")) @@ ("status" :> Some("bogus")),
      ("title" :> Some("abc")) @@ ("status" :> None),
      ("title" :> Some("abc")) @@ ("priority" :> Some(PriorityMin - 1)),
      ("title" :> Some("abc")) @@ ("priority" :> Some(PriorityMax + 1)) }

\* partial-update payloads
Patches ==
    { <<>>,
      "title" :> Some("ab"),
      "title" :> None,
      "description" :> None,
      "status" :> Some("bogus"),
      "status" :> None,
      "priority" :> Some(PriorityMax),
      "priority" :> Some(PriorityMax + 1),
      "due_date" :> Some(0),
      "due_date" :> None,
      "is_active" :> Some(TRUE),
      "is_active" :> Some(FALSE),
      ("title" :> Some("Actualizada API")) @@ ("status" :> Some("pending")) }

\* ?skip=&limit= of GET /tasks
Queries == { <<>>, ("skip" :> 1) @@ ("limit" :> 1) }

StatusSegments == {"pending", "in_progress", "done", "bogus"}

\* the ids a client asks for: those assigned so far and the next one
IdSegments == {ToString(n) : n \in 1..(MaxTime + 1)}

Known(store, seg) ==
    IF ParseInt(seg) = None THEN TRUE ELSE ParseInt(seg)[1] <= Len(store) + 1

Request(method, path, query, body) ==
    [method |-> method, path |-> path, query |-> query, body |-> body]

\* the request lines (method and path) the client sends
Lines ==
    {Request("GET", <<"health">>, <<>>, <<>>),
     Request("GET", <<"nothing">>, <<>>, <<>>),
     Request("PATCH", <<"tasks">>, <<>>, <<>>),
     Request("GET", <<"tasks">>, <<>>, <<>>),
     Request("POST", <<"tasks">>, <<>>, <<>>),
     Request("GET", <<"tasks", "overdue">>, <<>>, <<>>)}
    \cup {Request("GET", <<"tasks", "status", s>>, <<>>, <<>>) : s \in StatusSegments}
    \cup {Request(m, <<"tasks", seg>>, <<>>, <<>>) :
              m \in {"GET", "PUT", "DELETE"}, seg \in IdSegments}
    \cup {Request("PATCH", <<"tasks", seg, "complete">>, <<>>, <<>>) : seg \in IdSegments}

\* the request lines each route serves
Served == [name \in {Routes[i].name : i \in 1..Len(Routes)} \cup {"404", "405"} |->
              {l \in Lines : Dispatch(l) = name}]

NoRequest == Request("", <<>>, <<>>, <<>>)
NoResponse == Response(0, <<>>)
NoCall == [fn |-> "", task_id |-> 0, loaded |-> TRUE, arg |-> <<>>]
NoReturn == [ok |-> TRUE, rows |-> <<>>]

(* ---------------------------- specification ---------------------------- *)

Init ==
    /\ tasks = <<>>
    /\ now = 0
    /\ softDeleted = {}
    /\ revived = {}
    /\ phase = "idle"
    /\ req = NoRequest
    /\ resp = NoResponse
    /\ call = NoCall
    /\ ret = NoReturn

\* the methods whose handlers write
Writes(method) == method \in {"POST", "PUT", "DELETE", "PATCH"}

\* the router serves request r with outcome out; a transaction that wrote a
\* row has taken one instant of the clock
Serve(r, out) ==
    /\ phase = "idle"
    /\ Writes(r.method) => now < MaxTime
    /\ phase' = "responded"
    /\ req' = r
    /\ resp' = out.resp
    /\ tasks' = out.tasks
    /\ now' = IF out.tasks # tasks THEN now + 1 ELSE now
    /\ softDeleted' = IF out.wrote /\ r.method = "DELETE"
                      THEN softDeleted \cup {ParseInt(r.path[2])[1]}
                      ELSE softDeleted
    /\ UNCHANGED <<revived, call, ret>>

health_check ==
    \E r \in Served["health_check"] :
        Serve(r, main_health_check(tasks))

list_tasks ==
    \E r \in Served["list_tasks"], q \in Queries :
        Serve([r EXCEPT !.query = q], main_list_tasks(tasks, q))

get_task_route ==
    \E r \in Served["get_task"] :
        /\ Known(tasks, r.path[2])
        /\ Serve(r, main_get_task(tasks, r.path[2]))

create_task_route ==
    \E r \in Served["create_task"], body \in CreateBodies :
        /\ Serve([r EXCEPT !.body = body], main_create_task(tasks, body, now))

update_task_route ==
    \E r \in Served["update_task"], body \in Patches :
        /\ Known(tasks, r.path[2])
        /\ Serve([r EXCEPT !.body = body], main_update_task(tasks, r.path[2], body, now))

delete_task_route ==
    \E r \in Served["delete_task"] :
        /\ Known(tasks, r.path[2])
        /\ Serve(r, main_delete_task(tasks, r.path[2], now))

complete_task_route ==
    \E r \in Served["complete_task"] :
        /\ Known(tasks, r.path[2])
        /\ Serve(r, main_complete_task(tasks, r.path[2], now))

tasks_by_status_route ==
    \E r \in Served["tasks_by_status"] :
        Serve(r, main_tasks_by_status(tasks, r.path[3]))

\* never enabled: Served["overdue_tasks"] is empty, because the route
\* /tasks/{task_id}, registered before /tasks/overdue, takes its requests
overdue_tasks_route ==
    \E r \in Served["overdue_tasks"] :
        Serve(r, main_overdue_tasks(tasks, now))

\* no route serves the request: 404 Not Found or 405 Method Not Allowed
no_route ==
    \E code \in {404, 405} :
        \E r \in Served[ToString(code)] :
            Serve(r, Out(Response(code, <<>>), tasks, FALSE))

\* the client has the response; the next request can be served
Reply ==
    /\ phase = "responded"
    /\ phase' = "idle"
    /\ req' = NoRequest
    /\ resp' = NoResponse
    /\ call' = NoCall
    /\ ret' = NoReturn
    /\ UNCHANGED <<tasks, now, softDeleted, revived>>

\* the wall clock advances between requests
Tick ==
    /\ phase = "idle"
    /\ now < MaxTime
    /\ now' = now + 1
    /\ UNCHANGED <<tasks, softDeleted, revived, phase, req, resp, call, ret>>

Next ==
    \/ health_check
    \/ list_tasks
    \/ get_task_route
    \/ create_task_route
    \/ update_task_route
    \/ delete_task_route
    \/ complete_task_route
    \/ tasks_by_status_route
    \/ no_route
    \/ Reply
    \/ Tick

Spec == Init /\ [][Next]_vars

(* ------------------- the data-access layer, called directly ------------ *)

Call(fn, task_id, loaded, arg) ==
    [fn |-> fn, task_id |-> task_id, loaded |-> loaded, arg |-> arg]

Return(ok, rows) == [ok |-> ok, rows |-> rows]

\* a read: the store is left alone
Read(c, rows) ==
    /\ phase = "idle"
    /\ phase' = "responded"
    /\ call' = c
    /\ ret' = Return(TRUE, rows)
    /\ UNCHANGED <<tasks, now, softDeleted, revived, req, resp>>

\* a call that commits, with outcome done; the caller holds a reference to
\* the row (whatever its is_active), loaded or expired in its session
Commit(c, done) ==
    /\ phase = "idle"
    /\ now < MaxTime
    /\ phase' = "responded"
    /\ call' = c
    /\ ret' = Return(done.ok, done.rows)
    /\ tasks' = done.tasks
    /\ now' = IF done.tasks # tasks THEN now + 1 ELSE now
    /\ softDeleted' = IF c.fn = "soft_delete_task"
                      THEN softDeleted \cup {c.task_id} ELSE softDeleted
    /\ revived' = IF c.fn = "soft_delete_task" THEN revived \ {c.task_id}
                  ELSE IF /\ c.fn = "update_task" /\ done.ok
                          /\ c.task_id \in softDeleted
                          /\ FieldOr(c.arg, "is_active", None) = Some(TRUE)
                       THEN revived \cup {c.task_id}
                       ELSE revived
    /\ UNCHANGED <<req, resp>>

call_get_task ==
    \E task_id \in 1..(Len(tasks) + 1) :
        Read(Call("get_task", task_id, TRUE, <<>>), get_task(tasks, task_id))

call_get_tasks ==
    \E q \in Queries :
        Read(Call("get_tasks", 0, TRUE, q),
             get_tasks(tasks, FieldOr(q, "skip", 0), FieldOr(q, "limit", DefaultLimit)))

call_get_tasks_by_status ==
    \E s \in StatusSegments :
        Read(Call("get_tasks_by_status", 0, TRUE, s), get_tasks_by_status(tasks, s))

call_get_overdue_tasks ==
    Read(Call("get_overdue_tasks", 0, TRUE, <<>>), get_overdue_tasks(tasks, now))

\* the caller builds schemas.TaskCreate first: an invalid payload never
\* reaches create_task
call_create_task ==
    \E body \in CreateBodies :
        /\ TaskCreate(body) # None
        /\ Commit(Call("create_task", Len(tasks) + 1, TRUE, body),
                  create_task(tasks, TaskCreate(body)[1], now))

call_update_task ==
    \E task_id \in Ids(tasks), body \in Patches, loaded \in BOOLEAN :
        Commit(Call("update_task", task_id, loaded, body),
               update_task(tasks, task_id, TaskUpdate(body)[1], loaded, now))

call_soft_delete_task ==
    \E task_id \in Ids(tasks), loaded \in BOOLEAN :
        Commit(Call("soft_delete_task", task_id, loaded, <<>>),
               soft_delete_task(tasks, task_id, loaded, now))

call_complete_task ==
    \E task_id \in Ids(tasks), loaded \in BOOLEAN :
        Commit(Call("complete_task", task_id, loaded, <<>>),
               complete_task(tasks, task_id, loaded, now))

NextCrud ==
    \/ call_get_task
    \/ call_get_tasks
    \/ call_get_tasks_by_status
    \/ call_get_overdue_tasks
    \/ call_create_task
    \/ call_update_task
    \/ call_soft_delete_task
    \/ call_complete_task
    \/ Reply
    \/ Tick

SpecCrud == Init /\ [][NextCrud]_vars

(* ------------------------------ properties ----------------------------- *)

Statuses == {"pending", "in_progress", "done"}

RowOf(store, task_id) == store[IndexOf(store, task_id)]

\* a request or call has just been served
JustServed == phase = "idle" /\ phase' = "responded"

\* the rows the four reads of the data-access layer can return, for any
\* page, any status and the current instant
Readable(store, t) ==
    UNION {Ids(get_tasks(store, skip, limit)) :
               skip \in 0..Len(store), limit \in 0..Len(store)}
    \cup UNION {Ids(get_tasks_by_status(store, s)) :
               s \in Statuses \cup {store[i].status : i \in 1..Len(store)}}
    \cup Ids(get_overdue_tasks(store, t))
    \cup {task_id \in Ids(store) : get_task(store, task_id) # None}

Hidden(store, t, task_id) ==
    /\ task_id \in Ids(store)
    /\ RowOf(store, task_id).is_active = FALSE
    /\ task_id \notin Readable(store, t)

\* C1 (as claimed): after any sequence of create, update, complete and
\* soft-delete operations, a task that has been soft-deleted is returned by
\* none of get_task, get_tasks, get_tasks_by_status and get_overdue_tasks,
\* and its row is still in the store with is_active = false.
C1_SoftDeletedNeverReturned ==
    \A task_id \in softDeleted : Hidden(tasks, now, task_id)

\* C1 (amended): a soft-deleted task's row is never removed, and unless a
\* later update whose patch sets is_active = true was applied to it, it has
\* is_active = false and none of the four reads returns it.
C1_SoftDeletedHiddenUntilRevived ==
    /\ \A task_id \in softDeleted : task_id \in Ids(tasks)
    /\ \A task_id \in softDeleted \ revived : Hidden(tasks, now, task_id)
    /\ \A i \in 1..Len(tasks) : ~tasks[i].is_active => tasks[i].id \notin Readable(tasks, now)

\* a soft-deleted task was asked for by id and not found, its row still there
C1_Witness ==
    /\ phase = "responded"
    /\ call.fn = "get_task"
    /\ call.task_id \in softDeleted \ revived
    /\ ret.rows = None
    /\ Len(tasks) >= 2
    /\ RowOf(tasks, call.task_id).is_active = FALSE

\* the definition of overdue, in the words of the data model
IsOverdue(row, t) ==
    /\ row.due_date # None
    /\ row.due_date[1] < t
    /\ row.is_active
    /\ row.status # "done"

\* C2: for every store and every instant now, get_overdue_tasks returns
\* exactly the tasks with due_date set, due_date < now, is_active and
\* status other than done, each once.
C2_OverdueExactly ==
    (phase = "responded" /\ call.fn = "get_overdue_tasks") =>
        /\ Ids(ret.rows) = {tasks[i].id : i \in {j \in 1..Len(tasks) : IsOverdue(tasks[j], now)}}
        /\ Cardinality(Ids(ret.rows)) = Len(ret.rows)
        /\ \A i \in 1..Len(ret.rows) : ret.rows[i] = RowOf(tasks, ret.rows[i].id)

\* get_overdue_tasks returned a task and left out a done task that is past
\* due, a task due at this very instant or without due date, and an
\* inactive one
C2_Witness ==
    /\ phase = "responded"
    /\ call.fn = "get_overdue_tasks"
    /\ Len(ret.rows) = 1
    /\ \E i \in 1..Len(tasks) :
           /\ tasks[i].id \notin Ids(ret.rows)
           /\ \/ tasks[i].status = "done" /\ SqlLess(tasks[i].due_date, now) /\ tasks[i].is_active
              \/ tasks[i].due_date = Some(now) /\ tasks[i].is_active
              \/ tasks[i].due_date = None /\ tasks[i].is_active

\* C3: GET /tasks/overdue is served by the list-overdue operation: 200 with
\* exactly the overdue tasks.
C3_OverdueRouteAnswers ==
    (phase = "responded" /\ req.method = "GET" /\ req.path = <<"tasks", "overdue">>) =>
        /\ resp.code = 200
        /\ Ids(resp.body) = {tasks[i].id : i \in {j \in 1..Len(tasks) : IsOverdue(tasks[j], now)}}

\* C4: GET /tasks/status/{status} answers 400 for a status outside the
\* enumeration, leaving the store alone, and 200 with exactly the active
\* tasks of that status otherwise.
C4_StatusRouteAnswers ==
    [][(JustServed /\ req'.method = "GET" /\ Len(req'.path) = 3 /\ req'.path[2] = "status") =>
         /\ tasks' = tasks
         /\ IF req'.path[3] \notin Statuses
            THEN resp'.code = 400
            ELSE /\ resp'.code = 200
                 /\ resp'.body = SelectSeq(tasks, LAMBDA r : r.is_active /\ r.status = req'.path[3])
      ]_vars

\* C5: in every reachable state of the store the status of every row is one
\* of pending, in_progress, done.
C5_StatusEnumerated ==
    \A i \in 1..Len(tasks) : tasks[i].status \in Statuses

\* a patch that breaks a field constraint of the data model
PatchViolates(body) ==
    \/ /\ "title" \in DOMAIN body
       /\ body["title"] # None
       /\ Len(body["title"][1]) < TitleMinLength \/ Len(body["title"][1]) > TitleMaxLength
    \/ /\ "priority" \in DOMAIN body
       /\ body["priority"] # None
       /\ body["priority"][1] < PriorityMin \/ body["priority"][1] > PriorityMax

\* C6: PUT /tasks/{id} with a patch that breaks a field constraint answers
\* 422 and leaves the stored task unchanged.
C6_InvalidPatchRejected ==
    [][(JustServed /\ req'.method = "PUT" /\ PatchViolates(req'.body)) =>
         (resp'.code = 422 /\ tasks' = tasks)
      ]_vars

PatchFields == {"title", "description", "status", "priority", "due_date", "is_active"}

\* C7: update_task changes only the fields present in the patch: every
\* absent one of title, description, status, priority, due_date, is_active
\* keeps its value, and id and created_at never change.
C7_PartialUpdateFrame ==
    [][(JustServed /\ call'.fn = "update_task") =>
         LET old == RowOf(tasks, call'.task_id)
             new == RowOf(tasks', call'.task_id)
         IN /\ Len(tasks') = Len(tasks)
            /\ \A f \in PatchFields \ DOMAIN call'.arg : new[f] = old[f]
            /\ new.id = old.id
            /\ new.created_at = old.created_at
      ]_vars

\* only the title of the overdue task was updated: the new title is stored,
\* status, priority, due date and description are as created
C7_Witness ==
    /\ phase = "responded"
    /\ call.fn = "update_task"
    /\ DOMAIN call.arg = {"title"}
    /\ ret.ok
    /\ LET row == RowOf(tasks, call.task_id)
       IN /\ row.title = "ab"
          /\ row.status = "in_progress"
          /\ row.priority = PriorityMin
          /\ row.due_date = Some(1)
          /\ row.description = Some("vencida")
          /\ row.updated_at > row.created_at

SameButUpdatedAt(a, b) == [a EXCEPT !.updated_at = b.updated_at] = b

\* C8: complete_task on an active task always yields status = done, whatever
\* the status before, and calling it again changes nothing but updated_at.
C8_CompleteIdempotent ==
    [][(JustServed /\ call'.fn = "complete_task" /\ RowOf(tasks, call'.task_id).is_active) =>
         LET once == RowOf(tasks', call'.task_id)
         IN /\ once.status = "done"
            /\ ret'.rows = <<once>>
            /\ \A loaded \in BOOLEAN :
                   LET twice == RowOf(complete_task(tasks', call'.task_id, loaded, now').tasks,
                                      call'.task_id)
                   IN twice.status = "done" /\ SameButUpdatedAt(twice, once)
      ]_vars

\* the task created pending, with the default status, is done after complete
C8_Witness ==
    /\ phase = "responded"
    /\ call.fn = "complete_task"
    /\ ret.rows # <<>>
    /\ ret.rows[1].title = "Futura API"
    /\ ret.rows[1].status = "done"
    /\ ret.rows[1].is_active
    /\ ret.rows[1].updated_at > ret.rows[1].created_at

\* the request addresses one task: /tasks/{id} or /tasks/{id}/complete
OnTask(r) ==
    /\ Len(r.path) >= 2
    /\ r.path[1] = "tasks"
    /\ ParseInt(r.path[2]) # None
    /\ \/ Len(r.path) = 2 /\ r.method \in {"GET", "PUT", "DELETE"}
       \/ Len(r.path) = 3 /\ r.path[3] = "complete" /\ r.method = "PATCH"

Findable(store, task_id) ==
    \E i \in 1..Len(store) : store[i].id = task_id /\ store[i].is_active

\* C9: GET, PUT, DELETE /tasks/{id} and PATCH /tasks/{id}/complete on an id
\* that is absent or inactive answer 404 and leave the store unchanged; no
\* request modifies the row of an inactive task or makes it active again.
C9_NotFoundLeavesStore ==
    [][/\ (JustServed /\ OnTask(req') /\ ~Findable(tasks, ParseInt(req'.path[2])[1])) =>
              (resp'.code = 404 /\ tasks' = tasks)
       /\ \A i \in 1..Len(tasks) :
              ~tasks[i].is_active => (Len(tasks') >= i /\ tasks'[i] = tasks[i])
      ]_vars

\* a second DELETE of a soft-deleted task answered 404
C9_Witness ==
    /\ phase = "responded"
    /\ req.method = "DELETE"
    /\ ParseInt(req.path[2]) # None
    /\ ParseInt(req.path[2])[1] \in softDeleted
    /\ resp.code = 404
    /\ RowOf(tasks, ParseInt(req.path[2])[1]).is_active = FALSE

OtherRowsSame(old, new, task_id) ==
    /\ Len(new) = Len(old)
    /\ \A i \in 1..Len(old) : old[i].id # task_id => new[i] = old[i]

\* C10 (as claimed): soft_delete_task sets is_active = false and alters no
\* other field, updated_at included; no other row changes.
C10_SoftDeleteOnlyClearsActive ==
    [][(JustServed /\ call'.fn = "soft_delete_task") =>
         /\ RowOf(tasks', call'.task_id) = [RowOf(tasks, call'.task_id) EXCEPT !.is_active = FALSE]
         /\ OtherRowsSame(tasks, tasks', call'.task_id)
      ]_vars

\* C10 (amended): soft_delete_task sets is_active = false and keeps id,
\* title, description, status, priority, due_date and created_at; no other
\* row changes; updated_at is set to the current instant by the UPDATE that
\* clears is_active (always for an active task), and kept when no UPDATE
\* is issued.
C10_SoftDeleteRefreshesUpdatedAt ==
    [][(JustServed /\ call'.fn = "soft_delete_task") =>
         LET old == RowOf(tasks, call'.task_id)
             new == RowOf(tasks', call'.task_id)
         IN /\ new = [old EXCEPT !.is_active = FALSE, !.updated_at = new.updated_at]
            /\ new.updated_at \in {old.updated_at, now}
            /\ old.is_active => new.updated_at = now
            /\ OtherRowsSame(tasks, tasks', call'.task_id)
      ]_vars

\* a task was soft-deleted next to another one: it is inactive and its
\* updated_at is later than its created_at
C10_Witness ==
    /\ phase = "responded"
    /\ call.fn = "soft_delete_task"
    /\ Len(tasks) >= 2
    /\ LET row == RowOf(tasks, call.task_id)
       IN /\ row.is_active = FALSE
          /\ row.updated_at > row.created_at
          /\ row.updated_at = now - 1

====
